---- MODULE Spec2Model ----
(***************************************************************************)
(* Model of cmd/generate/codeowners/output.go of pizza-cli: the writer of  *)
(* the CODEOWNERS / OWNERS file.                                            *)
(*                                                                         *)
(* A string that the code inspects character by character (a file name) is *)
(* a sequence of byte values.  Aliases, e-mail addresses and author names   *)
(* are only compared for equality and copied, so they are TLA+ strings.     *)
(***************************************************************************)
EXTENDS Integers, Sequences, FiniteSets

VARIABLES
    fileStats,          \* FileStats: file name -> AuthorStats
    config,             \* opts.config: [Attributions, AttributionFallback]
    ownersStyleFile,    \* opts.ownersStyleFile
    pc,                 \* position inside generateOutputFile
    file,               \* the *os.File handle: "none", "open" or "closed"
    opens,              \* successful os.Create calls of the current run
    content,            \* lines of the output file on disk
    err,                \* value returned by generateOutputFile
    filenames,          \* the sorted slice of file names
    idx,                \* number of loop iterations entered
    sortedAuthorStats,  \* authorStats.ToSortedSlice() of the current file
    topContributors,    \* getTopContributorAttributions of the current file
    j,                  \* loop index i of writeOwnersChunk
    emitted,            \* file names whose chunk (path line) was written, in order
    failed,             \* an I/O step of the current run has failed
    writes,             \* write calls issued on the handle in the current run
    run,                \* number of the current invocation
    prevContent,        \* content left by the previous successful invocation
    filename,           \* argument of cleanFilename
    cleanPc,            \* position of the cleanFilename exercise
    escapedFilename,    \* cleanFilename(filename)
    escapedTwice,       \* cleanFilename(cleanFilename(filename))
    escapedPrefix       \* cleanFilename(text of filename before its first space)

inputVars == <<fileStats, config, ownersStyleFile>>
runVars == <<pc, file, opens, content, err, filenames, idx, sortedAuthorStats,
             topContributors, j, emitted, failed, writes, run, prevContent>>
cleanVars == <<filename, cleanPc, escapedFilename, escapedTwice, escapedPrefix>>
vars == <<inputVars, runVars, cleanVars>>

(***************************************************************************)
(* Bounds of the model.                                                    *)
(***************************************************************************)
MaxLen == 3             \* longest file name given to cleanFilename alone
MaxEmailsPerAlias == 2  \* longest e-mail list of one alias
MaxFallback == 4        \* longest AttributionFallback list
MaxFiles == 2           \* most files in a FileStats of a whole run
MaxRuns == 2            \* invocations of generateOutputFile on the same inputs

Min(a, b) == IF a < b THEN a ELSE b

\* All orders in which a Go map with key set S can be ranged over.
Orders(S) ==
    {s \in [1..Cardinality(S) -> S] : \A a, b \in DOMAIN s : a # b => s[a] # s[b]}

(***************************************************************************)
(* Strings as byte sequences, and cleanFilename.                           *)
(***************************************************************************)
\* 9 tab, 32 space, 35 '#', 92 backslash, 97 'a'
Alphabet == {9, 32, 35, 92, 97}

Strings(n) == UNION {[1..k -> Alphabet] : k \in 0..n}

\* Byte-wise order of Go strings (the < of sort.Strings).
RECURSIVE LexLess(_, _)
LexLess(s, t) ==
    IF t = <<>> THEN FALSE
    ELSE IF s = <<>> THEN TRUE
    ELSE IF Head(s) # Head(t) THEN Head(s) < Head(t)
    ELSE LexLess(Tail(s), Tail(t))

\* Index of the first occurrence of byte c in s, 0 when there is none.
IndexByte(s, c) ==
    IF \E k \in DOMAIN s : s[k] = c
    THEN CHOOSE k \in DOMAIN s : s[k] = c /\ \A m \in 1..(k - 1) : s[m] # c
    ELSE 0

\* strings.Split(s, sep) for a one-byte separator: every piece between separators.
RECURSIVE Split(_, _)
Split(s, sep) ==
    LET k == IndexByte(s, sep) IN
    IF k = 0 THEN <<s>>
    ELSE <<SubSeq(s, 1, k - 1)>> \o Split(SubSeq(s, k + 1, Len(s)), sep)

\* The class [\w\.\'\-\s\/\\] of the pattern; the pattern matches its complement.
IsWordByte(c) == c \in (48..57) \cup (65..90) \cup (97..122) \cup {95}
IsSpaceByte(c) == c \in {9, 10, 12, 13, 32}
\* Variant: the backslash left out of the class, so that it is escaped too.
InKeptClassNoBackslash(c) ==
    IsWordByte(c) \/ IsSpaceByte(c) \/ c \in {46, 39, 45, 47}

InKeptClass(c) == IsWordByte(c) \/ IsSpaceByte(c) \/ c \in {46, 39, 45, 47, 92}

\* re.ReplaceAllString(s, "\\$0"): each matched byte is preceded by a backslash.
RECURSIVE ReplaceAllString(_)
ReplaceAllString(s) ==
    IF s = <<>> THEN <<>>
    ELSE (IF InKeptClass(Head(s)) THEN <<Head(s)>> ELSE <<92, Head(s)>>)
         \o ReplaceAllString(Tail(s))

\* Variant: the name is escaped whole, without the split on spaces.
cleanFilenameNoSplit(name) == ReplaceAllString(name)

cleanFilename(name) == ReplaceAllString(Split(name, 32)[1])

(***************************************************************************)
(* Inputs: contributor statistics and the attribution configuration.       *)
(***************************************************************************)
EmailPool == {"a@x", "b@x", "c@x", "d@x"}
NameOf == [e \in EmailPool |->
             IF e = "a@x" THEN "Ann" ELSE IF e = "b@x" THEN "Ben"
             ELSE IF e = "c@x" THEN "Cy" ELSE "Dee"]
AliasPool == {"alice", "bob"}
ConfigEmails == {"a@x", "d@x"}
\* Contribution scores (Lines): two levels give ties and strict ranks.
Scores == {1, 2}
FallbackNames == <<"team-default", "alice", "carol", "dave", "erin", "frank">>

\* A CodeownerStat object; GitHubAlias is empty until attribution stamps it.
CodeownerStat(e, lines) ==
    [Name |-> NameOf[e], Email |-> e, Lines |-> lines, GitHubAlias |-> ""]

\* AuthorStats: the unordered collection of the CodeownerStat of one file.
AuthorStatsOver(emails, scores) ==
    UNION {{{CodeownerStat(e, sc[e]) : e \in S} : sc \in [S -> scores]} :
           S \in SUBSET emails}

SeqsUpTo(S, n) == UNION {[1..k -> S] : k \in 0..n}

\* The e-mail lists of up to n entries.  A list is only ever scanned for the
\* entries equal to one e-mail, so one list stands for all its reorderings:
\* the one with every a@x before any other address.
EmailLists(emails, n) ==
    {l \in SeqsUpTo(emails, n) :
        \A a, b \in DOMAIN l : (a < b /\ l[b] = "a@x") => l[a] = "a@x"}

\* config.Spec: Attributions is a Go map alias -> list of e-mails,
\* AttributionFallback a list of aliases: none, one or maxFallback of them.
ConfigsOver(emails, maxEmails, maxFallback) ==
    {[Attributions |-> a, AttributionFallback |-> SubSeq(FallbackNames, 1, k)] :
        a \in [AliasPool -> EmailLists(emails, maxEmails)],
        k \in {0, Min(1, maxFallback), Min(maxFallback, Len(FallbackNames))}}

(***************************************************************************)
(* Attribution.                                                            *)
(***************************************************************************)
\* AuthorStats.ToSortedSlice: the entries by Lines, largest first.  The order
\* of entries with equal Lines is whatever the collection yields.
ToSortedSlice(authorStats) ==
    {s \in Orders(authorStats) :
        \A a, b \in DOMAIN s : a < b => s[a].Lines >= s[b].Lines}

\* The two inner loops of getTopContributorAttributions for one entry: the
\* alias of every (alias, listed e-mail) pair that equals the entry's e-mail,
\* in the order the map is ranged over.
RECURSIVE MatchingAliases(_, _, _)
MatchingAliases(email, attributions, order) ==
    IF order = <<>> THEN <<>>
    ELSE LET username == Head(order)
             hits == SelectSeq(attributions[username], LAMBDA e : e = email)
         IN  [k \in 1..Len(hits) |-> username]
             \o MatchingAliases(email, attributions, Tail(order))

\* What one entry adds to topContributors.  The slice holds pointers: every
\* append of the entry is the same object, whose GitHubAlias ends as the alias
\* stamped last.  (The stamp also stays on the object held by FileStats;
\* nothing reads it there, so only the rows carry it.)
AppendedRows(stat, aliases) ==
    [k \in 1..Len(aliases) |-> [stat EXCEPT !.GitHubAlias = aliases[Len(aliases)]]]

\* Variant: the scan goes on past the n-th entry.
RECURSIVE TopRowsUnbounded(_, _, _, _, _)
TopRowsUnbounded(sorted, i, n, attributions, order) ==
    IF i > Len(sorted) THEN <<>>
    ELSE AppendedRows(sorted[i], MatchingAliases(sorted[i].Email, attributions, order))
         \o TopRowsUnbounded(sorted, i + 1, n, attributions, order)

RECURSIVE TopRows(_, _, _, _, _)
TopRows(sorted, i, n, attributions, order) ==
    IF i > Len(sorted) \/ i > n THEN <<>>
    ELSE AppendedRows(sorted[i], MatchingAliases(sorted[i].Email, attributions, order))
         \o TopRows(sorted, i + 1, n, attributions, order)

\* Variant: the fallback aliases are wrapped last to first.
FallbackRowsReversed(fallback) ==
    [k \in 1..Len(fallback) |->
        [Name |-> "", Email |-> "", Lines |-> 0,
         GitHubAlias |-> fallback[Len(fallback) + 1 - k]]]

FallbackRows(fallback) ==
    [k \in 1..Len(fallback) |->
        [Name |-> "", Email |-> "", Lines |-> 0, GitHubAlias |-> fallback[k]]]

\* getTopContributorAttributions on the sorted slice; order is the order in
\* which this call ranges over the map config.Attributions.
getTopContributorAttributions(sorted, n, cfg, order) ==
    LET rows == TopRows(sorted, 1, n, cfg.Attributions, order) IN
    IF Len(rows) = 0 THEN FallbackRows(cfg.AttributionFallback) ELSE rows

TopN == 3

(***************************************************************************)
(* Lines of the output file.                                               *)
(***************************************************************************)
HeaderLine == [kind |-> "header"]

\* The line of writeGitHubCodeownersChunk: the cleaned name, then one
\* " @alias" per contributor (none when there is no contributor).
GitHubLine(top, srcFilename) ==
    [kind |-> "codeowners", path |-> cleanFilename(srcFilename),
     owners |-> [k \in 1..Len(top) |-> top[k].GitHubAlias]]

PathLine(srcFilename) == [kind |-> "path", path |-> srcFilename]
NameLine(stat) == [kind |-> "name", text |-> stat.Name]
EmailLine(stat) == [kind |-> "email", text |-> stat.Email]

\* sort.Strings: insertion into an ascending slice.
RECURSIVE InsertSorted(_, _)
InsertSorted(x, s) ==
    IF s = <<>> THEN <<x>>
    ELSE IF LexLess(x, Head(s)) THEN <<x>> \o s
    ELSE <<Head(s)>> \o InsertSorted(x, Tail(s))

\* Variant: the collected names are left in the order the map yielded them.
SortStringsOmitted(s) == s

RECURSIVE SortStrings(_)
SortStrings(s) ==
    IF s = <<>> THEN <<>> ELSE InsertSorted(Head(s), SortStrings(Tail(s)))

OwnersMax == 3

(***************************************************************************)
(* generateOutputFile, one action per I/O call.  content holds the lines    *)
(* whose write call succeeded; a failing call adds no complete line.       *)
(***************************************************************************)
\* Variant: the handle is left open on return.
CloseOmitted(f) == f

\* defer file.Close(): runs on every return once os.Create has succeeded.
DeferredClose(f) == IF f = "open" THEN "closed" ELSE f

\* Variant: the error of the failing step is dropped and the loop goes on.
ErrorIgnored ==
    /\ pc' = "Loop"
    /\ err' = err
    /\ failed' = TRUE
    /\ file' = file

\* return fmt.Errorf(...): the first failing I/O step ends the invocation.
ReturnError ==
    /\ pc' = "Returned"
    /\ err' = "error"
    /\ failed' = TRUE
    /\ file' = DeferredClose(file)

\* os.MkdirAll(filepath.Dir(outputPath)): nil, an already-exists error (ignored)
\* or any other error (returned).
MkdirAll ==
    /\ pc = "MkdirAll"
    /\ \E outcome \in {"nil", "exists", "other"} :
          IF outcome = "other"
          THEN /\ ReturnError
          ELSE /\ pc' = "Create"
               /\ UNCHANGED <<err, failed, file>>
    /\ UNCHANGED <<opens, content, filenames, idx, sortedAuthorStats,
                   topContributors, j, emitted, writes, run, prevContent>>
    /\ UNCHANGED <<inputVars, cleanVars>>

\* os.Create(outputPath): truncates the file and opens it, or fails.
Create ==
    /\ pc = "Create"
    /\ \E ok \in BOOLEAN :
          IF ok
          THEN /\ pc' = "WriteHeader"
               /\ file' = "open"
               /\ opens' = opens + 1
               /\ content' = <<>>
               /\ UNCHANGED <<err, failed>>
          ELSE /\ ReturnError
               /\ UNCHANGED <<opens, content>>
    /\ UNCHANGED <<filenames, idx, sortedAuthorStats, topContributors, j,
                   emitted, writes, run, prevContent>>
    /\ UNCHANGED <<inputVars, cleanVars>>

\* file.WriteString(header), then the collection and sort of the file names.
\* range over the map fileStats yields its keys in any order.
WriteHeader ==
    /\ pc = "WriteHeader"
    /\ writes' = writes + 1
    /\ \E ok \in BOOLEAN :
          IF ok
          THEN /\ content' = Append(content, HeaderLine)
               /\ \E collected \in Orders(DOMAIN fileStats) :
                     filenames' = SortStrings(collected)
               /\ pc' = "Loop"
               /\ UNCHANGED <<err, failed, file>>
          ELSE /\ ReturnError
               /\ UNCHANGED <<content, filenames>>
    /\ UNCHANGED <<opens, idx, sortedAuthorStats, topContributors, j, emitted,
                   run, prevContent>>
    /\ UNCHANGED <<inputVars, cleanVars>>

\* One iteration of the loop with ownersStyleFile false: the whole of
\* writeGitHubCodeownersChunk, which issues one Fprintf.
WriteGitHubCodeownersChunk ==
    /\ pc = "Loop"
    /\ idx < Len(filenames)
    /\ ~ownersStyleFile
    /\ idx' = idx + 1
    /\ writes' = writes + 1
    /\ \E sorted \in ToSortedSlice(fileStats[filenames[idx + 1]]),
          order \in Orders(DOMAIN config.Attributions),
          ok \in BOOLEAN :
          LET top == getTopContributorAttributions(sorted, TopN, config, order) IN
          /\ sortedAuthorStats' = sorted
          /\ topContributors' = top
          /\ IF ok
             THEN /\ content' = Append(content, GitHubLine(top, filenames[idx + 1]))
                  /\ emitted' = Append(emitted, filenames[idx + 1])
                  /\ pc' = "Loop"
                  /\ UNCHANGED <<err, failed, file>>
             ELSE /\ ReturnError
                  /\ UNCHANGED <<content, emitted>>
    /\ UNCHANGED <<opens, filenames, j, run, prevContent>>
    /\ UNCHANGED <<inputVars, cleanVars>>

\* One iteration with ownersStyleFile true, up to the first Fprintf of
\* writeOwnersChunk: the raw file name on its own line.
WriteOwnersChunkPath ==
    /\ pc = "Loop"
    /\ idx < Len(filenames)
    /\ ownersStyleFile
    /\ idx' = idx + 1
    /\ writes' = writes + 1
    /\ j' = 0
    /\ \E sorted \in ToSortedSlice(fileStats[filenames[idx + 1]]),
          order \in Orders(DOMAIN config.Attributions),
          ok \in BOOLEAN :
          LET top == getTopContributorAttributions(sorted, TopN, config, order) IN
          /\ sortedAuthorStats' = sorted
          /\ topContributors' = top
          /\ IF ok
             THEN /\ content' = Append(content, PathLine(filenames[idx + 1]))
                  /\ emitted' = Append(emitted, filenames[idx + 1])
                  /\ pc' = IF 0 < Len(top) /\ 0 < OwnersMax
                           THEN "OwnersName" ELSE "Loop"
                  /\ UNCHANGED <<err, failed, file>>
             ELSE /\ ReturnError
                  /\ UNCHANGED <<content, emitted>>
    /\ UNCHANGED <<opens, filenames, run, prevContent>>
    /\ UNCHANGED <<inputVars, cleanVars>>

\* Fprintf(file, "  - %s\n", topContributors[i].Name)
WriteOwnersName ==
    /\ pc = "OwnersName"
    /\ writes' = writes + 1
    /\ \E ok \in BOOLEAN :
          IF ok
          THEN /\ content' = Append(content, NameLine(topContributors[j + 1]))
               /\ pc' = "OwnersEmail"
               /\ UNCHANGED <<err, failed, file>>
          ELSE /\ ReturnError
               /\ UNCHANGED content
    /\ UNCHANGED <<opens, filenames, idx, sortedAuthorStats, topContributors, j,
                   emitted, run, prevContent>>
    /\ UNCHANGED <<inputVars, cleanVars>>

\* Fprintf(file, "    - %s\n", topContributors[i].Email); i++ and the loop test.
WriteOwnersEmail ==
    /\ pc = "OwnersEmail"
    /\ writes' = writes + 1
    /\ \E ok \in BOOLEAN :
          IF ok
          THEN /\ content' = Append(content, EmailLine(topContributors[j + 1]))
               /\ j' = j + 1
               /\ pc' = IF j + 1 < Len(topContributors) /\ j + 1 < OwnersMax
                        THEN "OwnersName" ELSE "Loop"
               /\ UNCHANGED <<err, failed, file>>
          ELSE /\ ReturnError
               /\ UNCHANGED <<content, j>>
    /\ UNCHANGED <<opens, filenames, idx, sortedAuthorStats, topContributors,
                   emitted, run, prevContent>>
    /\ UNCHANGED <<inputVars, cleanVars>>

\* return nil after the last file; the deferred Close runs.
ReturnNil ==
    /\ pc = "Loop"
    /\ idx = Len(filenames)
    /\ pc' = "Returned"
    /\ err' = "nil"
    /\ file' = DeferredClose(file)
    /\ UNCHANGED <<opens, content, filenames, idx, sortedAuthorStats,
                   topContributors, j, emitted, failed, writes, run, prevContent>>
    /\ UNCHANGED <<inputVars, cleanVars>>

\* The command is run again on the same FileStats, configuration and options.
InvokeAgain ==
    /\ pc = "Returned"
    /\ run < MaxRuns
    /\ run' = run + 1
    /\ prevContent' = IF err = "nil" THEN content ELSE prevContent
    /\ pc' = "MkdirAll"
    /\ file' = "none"
    /\ opens' = 0
    /\ err' = "pending"
    /\ filenames' = <<>>
    /\ idx' = 0
    /\ sortedAuthorStats' = <<>>
    /\ topContributors' = <<>>
    /\ j' = 0
    /\ emitted' = <<>>
    /\ failed' = FALSE
    /\ writes' = 0
    /\ UNCHANGED content
    /\ UNCHANGED <<inputVars, cleanVars>>

(***************************************************************************)
(* Specification of whole invocations.                                     *)
(***************************************************************************)
\* "a b", "a#", "b"
FilePool == {<<97, 32, 98>>, <<97, 35>>, <<98>>}
\* In whole invocations the scores of a file are distinct: a@x 2, b@x 1.
RunLines == [e \in {"a@x", "b@x"} |-> IF e = "a@x" THEN 2 ELSE 1]
RunAuthorStats ==
    {{CodeownerStat(e, RunLines[e]) : e \in S} : S \in SUBSET {"a@x", "b@x"}}
RunConfigs == ConfigsOver({"a@x"}, 1, 1)

FileStatsPool ==
    UNION {[S -> RunAuthorStats] :
           S \in {T \in SUBSET FilePool : Cardinality(T) <= MaxFiles}}

CleanIdle ==
    /\ filename = <<>>
    /\ cleanPc = "idle"
    /\ escapedFilename = <<>>
    /\ escapedTwice = <<>>
    /\ escapedPrefix = <<>>

Init ==
    /\ fileStats \in FileStatsPool
    /\ config \in RunConfigs
    /\ ownersStyleFile \in BOOLEAN
    /\ pc = "MkdirAll"
    /\ file = "none"
    /\ opens = 0
    /\ content = <<>>
    /\ err = "pending"
    /\ filenames = <<>>
    /\ idx = 0
    /\ sortedAuthorStats = <<>>
    /\ topContributors = <<>>
    /\ j = 0
    /\ emitted = <<>>
    /\ failed = FALSE
    /\ writes = 0
    /\ run = 1
    /\ prevContent = <<>>
    /\ CleanIdle

Next ==
    \/ MkdirAll
    \/ Create
    \/ WriteHeader
    \/ WriteGitHubCodeownersChunk
    \/ WriteOwnersChunkPath
    \/ WriteOwnersName
    \/ WriteOwnersEmail
    \/ ReturnNil
    \/ InvokeAgain

Spec == Init /\ [][Next]_vars

(***************************************************************************)
(* Specification of one loop iteration over wide attribution inputs: the   *)
(* invocation has opened the file and written the header; FileStats holds  *)
(* one file, "a#".                                                         *)
(***************************************************************************)
AttrFile == <<97, 35>>

InitAttr ==
    /\ fileStats \in [{AttrFile} -> AuthorStatsOver(EmailPool, Scores)]
    /\ config \in ConfigsOver(ConfigEmails, MaxEmailsPerAlias, MaxFallback)
    /\ ownersStyleFile \in BOOLEAN
    /\ pc = "Loop"
    /\ file = "open"
    /\ opens = 1
    /\ content = <<HeaderLine>>
    /\ err = "pending"
    /\ filenames = <<AttrFile>>
    /\ idx = 0
    /\ sortedAuthorStats = <<>>
    /\ topContributors = <<>>
    /\ j = 0
    /\ emitted = <<>>
    /\ failed = FALSE
    /\ writes = 1
    /\ run = 1
    /\ prevContent = <<>>
    /\ CleanIdle

NextAttr ==
    \/ WriteGitHubCodeownersChunk
    \/ WriteOwnersChunkPath
    \/ WriteOwnersName
    \/ WriteOwnersEmail
    \/ ReturnNil

SpecAttr == InitAttr /\ [][NextAttr]_vars

(***************************************************************************)
(* Specification of cleanFilename alone, over every string of the alphabet *)
(* up to MaxLen bytes.                                                     *)
(***************************************************************************)
RunIdle ==
    /\ fileStats = <<>>
    /\ config = [Attributions |-> <<>>, AttributionFallback |-> <<>>]
    /\ ownersStyleFile = FALSE
    /\ pc = "idle"
    /\ file = "none"
    /\ opens = 0
    /\ content = <<>>
    /\ err = "pending"
    /\ filenames = <<>>
    /\ idx = 0
    /\ sortedAuthorStats = <<>>
    /\ topContributors = <<>>
    /\ j = 0
    /\ emitted = <<>>
    /\ failed = FALSE
    /\ writes = 0
    /\ run = 1
    /\ prevContent = <<>>

\* The text of s before its first space (all of s when it has none).
BeforeFirstSpace(s) ==
    IF \E k \in DOMAIN s : s[k] = 32
    THEN SubSeq(s, 1, (CHOOSE k \in DOMAIN s :
                          s[k] = 32 /\ \A m \in 1..(k - 1) : s[m] # 32) - 1)
    ELSE s

InitClean ==
    /\ filename \in Strings(MaxLen)
    /\ cleanPc = "start"
    /\ escapedFilename = <<>>
    /\ escapedTwice = <<>>
    /\ escapedPrefix = <<>>
    /\ RunIdle

\* escaped := cleanFilename(filename)
CleanOnce ==
    /\ cleanPc = "start"
    /\ escapedFilename' = cleanFilename(filename)
    /\ cleanPc' = "once"
    /\ UNCHANGED <<filename, escapedTwice, escapedPrefix>>
    /\ UNCHANGED <<inputVars, runVars>>

\* cleanFilename applied to its own result
CleanAgain ==
    /\ cleanPc = "once"
    /\ escapedTwice' = cleanFilename(escapedFilename)
    /\ cleanPc' = "twice"
    /\ UNCHANGED <<filename, escapedFilename, escapedPrefix>>
    /\ UNCHANGED <<inputVars, runVars>>

\* cleanFilename applied to the text before the first space
CleanPrefix ==
    /\ cleanPc = "twice"
    /\ escapedPrefix' = cleanFilename(BeforeFirstSpace(filename))
    /\ cleanPc' = "done"
    /\ UNCHANGED <<filename, escapedFilename, escapedTwice>>
    /\ UNCHANGED <<inputVars, runVars>>

NextClean == CleanOnce \/ CleanAgain \/ CleanPrefix

SpecClean == InitClean /\ [][NextClean]_vars

(***************************************************************************)
(* Properties.                                                             *)
(***************************************************************************)
Range(s) == {s[k] : k \in DOMAIN s}

\* Characters the cleaner is documented to leave alone: word characters,
\* period, apostrophe, hyphen, whitespace, forward slash and backslash.
DocumentedKept(c) ==
    \/ c \in (48..57) \cup (65..90) \cup (97..122) \cup {95}
    \/ c \in {46, 39, 45, 47, 92}
    \/ c \in {9, 10, 12, 13, 32}

NeedsEscape(s) == {k \in DOMAIN s : ~DocumentedKept(s[k])}

\* C1: the file names for which a chunk is emitted are strictly increasing in
\* byte-wise lexicographic order, and a successful invocation has emitted
\* every key of FileStats exactly once.
C1_EmittedStrictlyIncreasing ==
    /\ \A a, b \in DOMAIN emitted : a < b => LexLess(emitted[a], emitted[b])
    /\ (pc = "Returned" /\ err = "nil") =>
          /\ Range(emitted) = DOMAIN fileStats
          /\ Len(emitted) = Cardinality(DOMAIN fileStats)

\* A successful invocation over two files, given in an order the map can yield.
C1_Witness ==
    /\ pc = "Returned"
    /\ err = "nil"
    /\ Len(emitted) >= 2
    /\ emitted[1] = <<97, 32, 98>>
    /\ emitted[2] = <<97, 35>>

\* C4 (as stated): cleanFilename applied twice equals cleanFilename applied once.
C4_Idempotent ==
    cleanPc \in {"twice", "done"} => escapedTwice = escapedFilename

\* C4 (amended): cleanFilename applied twice equals cleanFilename applied once
\* exactly when the text before the first space holds no character that gets
\* escaped; otherwise the second application adds one more backslash for each
\* such character.
C4_IdempotentIffNothingEscaped ==
    cleanPc \in {"twice", "done"} =>
        LET first == BeforeFirstSpace(filename) IN
        /\ (escapedTwice = escapedFilename) <=> (NeedsEscape(first) = {})
        /\ Len(escapedFilename) = Len(first) + Cardinality(NeedsEscape(first))
        /\ Len(escapedTwice) = Len(escapedFilename) + Cardinality(NeedsEscape(first))

\* A name with a literal backslash and nothing to escape, cleaned twice.
C4_Witness ==
    /\ cleanPc = "done"
    /\ filename = <<97, 92, 9>>
    /\ escapedTwice = escapedFilename
    /\ escapedFilename = filename

\* C5: for a name with at least one space, cleanFilename returns what it
\* returns for the text before the first space alone.
C5_RenameTruncation ==
    (cleanPc = "done" /\ 32 \in Range(filename)) =>
        escapedFilename = escapedPrefix

\* "a #": the text after the space would be escaped if it were kept.
C5_Witness ==
    /\ cleanPc = "done"
    /\ filename = <<97, 32, 35>>
    /\ escapedFilename = <<97>>

(***************************************************************************)
(* Properties of one file's attribution and chunk.                         *)
(***************************************************************************)
\* The file of the current loop iteration, its statistics, and whether its
\* chunk has been written completely.
CurrentFile == filenames[idx]
ChunkComplete == idx > 0 /\ pc \in {"Loop", "Returned"} /\ ~failed

\* The lines of the output that follow the header and belong to the last chunk.
LinesOfKind(kind) == SelectSeq(content, LAMBDA l : l.kind = kind)

LastCodeownersLine == LinesOfKind("codeowners")[Len(LinesOfKind("codeowners"))]

\* The aliases under which e-mail e is listed.
AliasesListing(e) ==
    {u \in DOMAIN config.Attributions : e \in Range(config.Attributions[u])}

\* The entries among the 3 top-ranked whose e-mail some alias lists.
TopMatches ==
    {i \in 1..Min(3, Len(sortedAuthorStats)) :
        AliasesListing(sortedAuthorStats[i].Email) # {}}

NoContributorConfigured ==
    \A st \in fileStats[CurrentFile] : AliasesListing(st.Email) = {}

\* C2 (as stated): no file gets more than 3 owners: at most 3 aliases on a
\* CODEOWNERS line and at most 3 name/email blocks in an OWNERS chunk.
C2_AtMostThreeOwners ==
    /\ \A k \in DOMAIN content :
          content[k].kind = "codeowners" => Len(content[k].owners) <= 3
    /\ Len(LinesOfKind("name")) <= 3

\* The (entry, alias, list position) triples that match among the 3 top entries.
TopListings ==
    {t \in TopMatches \X (DOMAIN config.Attributions) \X (1..MaxEmailsPerAlias) :
        /\ t[3] \in DOMAIN config.Attributions[t[2]]
        /\ config.Attributions[t[2]][t[3]] = sortedAuthorStats[t[1]].Email}

\* C2 (amended): an OWNERS chunk never has more than 3 name/email blocks.  A
\* CODEOWNERS line names at most 3 distinct contributors, but carries one
\* alias per matching (alias, listed e-mail) pair of the 3 top entries, or one
\* per fallback alias when none of them matches, which can be more than 3.
C2_OwnersBlocksAtMostThree ==
    /\ Len(LinesOfKind("name")) <= 3
    /\ Len(LinesOfKind("email")) <= 3
    /\ (ChunkComplete /\ ~ownersStyleFile) =>
          /\ Len(LastCodeownersLine.owners) = Len(topContributors)
          /\ Len(LastCodeownersLine.owners) =
                IF TopMatches # {} THEN Cardinality(TopListings)
                ELSE Len(config.AttributionFallback)
          /\ TopMatches # {} =>
                Cardinality({topContributors[r].Email : r \in DOMAIN topContributors}) <= 3

\* Four resolved rows, of which the OWNERS chunk has written three blocks.
C2_Witness ==
    /\ ChunkComplete
    /\ ownersStyleFile
    /\ TopMatches # {}
    /\ Len(topContributors) >= 4
    /\ Len(LinesOfKind("name")) = 3
    /\ Len(LinesOfKind("email")) = 3

\* C3 (as stated): when no contributor of the file has a configured e-mail,
\* the owners emitted for the file are exactly the fallback aliases, in order.
C3_FallbackExactly ==
    (ChunkComplete /\ NoContributorConfigured) =>
        IF ownersStyleFile
        THEN [k \in 1..Len(LinesOfKind("name")) |-> LinesOfKind("name")[k].text]
                = config.AttributionFallback
        ELSE LastCodeownersLine.owners = config.AttributionFallback

\* C3 (amended): when no contributor of the file has a configured e-mail, the
\* CODEOWNERS line of the file lists exactly the fallback aliases, in order;
\* the OWNERS chunk of the file has one block per fallback alias up to 3, each
\* with an empty name and an empty e-mail.
C3_FallbackGitHubExactlyOwnersBlank ==
    (ChunkComplete /\ NoContributorConfigured) =>
        IF ownersStyleFile
        THEN /\ Len(LinesOfKind("name")) = Min(3, Len(config.AttributionFallback))
             /\ Len(LinesOfKind("email")) = Len(LinesOfKind("name"))
             /\ \A k \in DOMAIN content :
                   content[k].kind \in {"name", "email"} => content[k].text = ""
        ELSE LastCodeownersLine.owners = config.AttributionFallback

\* Contributors exist, an e-mail of nobody in the file is configured, and the
\* CODEOWNERS line carries the four fallback aliases in their order.
C3_Witness ==
    /\ ChunkComplete
    /\ ~ownersStyleFile
    /\ NoContributorConfigured
    /\ Cardinality(fileStats[CurrentFile]) >= 2
    /\ AliasesListing("d@x") # {}
    /\ LastCodeownersLine.owners = <<"team-default", "alice", "carol", "dave">>

\* Positions of topContributors that hold the entry with e-mail e.
RowsOf(e) == {r \in DOMAIN topContributors : topContributors[r].Email = e}

ListsHaveNoDuplicates ==
    \A u \in DOMAIN config.Attributions :
        \A a, b \in DOMAIN config.Attributions[u] :
            a # b => config.Attributions[u][a] # config.Attributions[u][b]

\* C8: a top-ranked entry whose e-mail is listed under k >= 2 distinct aliases
\* yields k rows, one carrying each of the k aliases.
C8_OneRowPerAlias ==
    (idx > 0 /\ ListsHaveNoDuplicates) =>
        \A i \in 1..Min(3, Len(sortedAuthorStats)) :
            LET e == sortedAuthorStats[i].Email IN
            Cardinality(AliasesListing(e)) >= 2 =>
                /\ Cardinality(RowsOf(e)) = Cardinality(AliasesListing(e))
                /\ {topContributors[r].GitHubAlias : r \in RowsOf(e)}
                      = AliasesListing(e)

\* Rank of a resolved row: the position of its entry in the sorted slice.
RankOf(row) ==
    IF \E i \in DOMAIN sortedAuthorStats : sortedAuthorStats[i].Email = row.Email
    THEN CHOOSE i \in DOMAIN sortedAuthorStats : sortedAuthorStats[i].Email = row.Email
    ELSE 0

\* C9: only the 3 highest-scoring entries are resolved.  Every row that is not
\* a fallback row is one of them, carrying an alias that lists its e-mail; an
\* entry among them without a match is absent and nothing replaces it; rows
\* are in rank order; and when none of the 3 matches, the result is the
\* fallback list, even if a lower-ranked e-mail is configured.
C9_OnlyTopThreeResolved ==
    idx > 0 =>
        LET top == TopMatches
            rank == [r \in DOMAIN topContributors |-> RankOf(topContributors[r])]
        IN
        IF top # {}
        THEN /\ \A r \in DOMAIN topContributors :
                   /\ rank[r] \in top
                   /\ topContributors[r].Email = sortedAuthorStats[rank[r]].Email
                   /\ topContributors[r].Name = sortedAuthorStats[rank[r]].Name
                   /\ topContributors[r].Lines = sortedAuthorStats[rank[r]].Lines
                   /\ topContributors[r].GitHubAlias
                         \in AliasesListing(topContributors[r].Email)
                   /\ \A i \in DOMAIN sortedAuthorStats :
                         i > 3 => topContributors[r].Lines >= sortedAuthorStats[i].Lines
             /\ \A i \in top : \E r \in DOMAIN topContributors : rank[r] = i
             /\ \A r \in DOMAIN topContributors :
                   r > 1 => rank[r - 1] <= rank[r]
        ELSE /\ Len(topContributors) = Len(config.AttributionFallback)
             /\ \A r \in DOMAIN topContributors :
                   /\ topContributors[r].GitHubAlias = config.AttributionFallback[r]
                   /\ topContributors[r].Email = ""
                   /\ topContributors[r].Name = ""

\* Four contributors, the configured one ranked fourth: the fallback is returned.
C9_Witness ==
    /\ idx > 0
    /\ Len(sortedAuthorStats) = 4
    /\ TopMatches = {}
    /\ AliasesListing(sortedAuthorStats[4].Email) # {}
    /\ Len(topContributors) >= 1
    /\ topContributors[1].GitHubAlias = "team-default"

(***************************************************************************)
(* Properties of whole invocations.                                        *)
(***************************************************************************)
\* The output of a successful invocation: the header, then for every file in
\* sorted order its chunk (one CODEOWNERS line, or a path line followed by
\* name/email pairs).
FullyWritten ==
    LET sortedKeys == SortStrings(CHOOSE o \in Orders(DOMAIN fileStats) : TRUE)
        paths == IF ownersStyleFile THEN LinesOfKind("path")
                 ELSE LinesOfKind("codeowners")
    IN  /\ Len(content) >= 1
        /\ content[1] = HeaderLine
        /\ Len(LinesOfKind("header")) = 1
        /\ Len(paths) = Len(sortedKeys)
        /\ \A k \in DOMAIN paths :
              paths[k].path = IF ownersStyleFile THEN sortedKeys[k]
                              ELSE cleanFilename(sortedKeys[k])
        /\ Len(LinesOfKind("name")) = Len(LinesOfKind("email"))
        /\ Len(content) = 1 + Len(paths) + 2 * Len(LinesOfKind("name"))

C6_Outcome ==
    /\ (pc = "Returned" /\ err = "nil") => (~failed /\ FullyWritten)
    /\ pc = "Returned" => (err = "error" <=> failed)
    /\ failed => (pc = "Returned" /\ err = "error")
    /\ (failed /\ opens = 0) => writes = 0

\* C6: an invocation either returns nil with the header and every chunk
\* written, or returns an error at its first failing I/O step and issues no
\* write after it; while the file has not been created the output is untouched.
C6_AbortAtFirstFailure ==
    /\ []C6_Outcome
    /\ [][(failed /\ run' = run) => (writes' = writes /\ content' = content)]_vars
    /\ [][(opens' = 0) => content' = content]_vars

\* A chunk write fails in the second file, after the first chunk went out.
C6_Witness ==
    /\ pc = "Returned"
    /\ err = "error"
    /\ failed
    /\ idx = 2
    /\ Len(emitted) = 1
    /\ Len(content) >= 2

\* C7: once opened, the file is opened exactly once in the invocation and is
\* closed when the invocation has returned, with nil or with an error; nothing
\* is written after the close.
C7_OpenedOnceClosedOnReturn ==
    /\ [](/\ opens <= 1
          /\ (file # "none") <=> (opens = 1)
          /\ (pc = "Returned") => (file # "open")
          /\ (pc = "Returned" /\ opens = 1) => file = "closed"
          /\ (file = "closed") => (pc = "Returned"))
    /\ [][file = "closed" => ((content' = content /\ writes' = writes) \/ run' # run)]_vars

\* An OWNERS e-mail line fails to be written: the error path closes the file.
C7_Witness ==
    /\ pc = "Returned"
    /\ err = "error"
    /\ ownersStyleFile
    /\ file = "closed"
    /\ opens = 1
    /\ Len(LinesOfKind("name")) = Len(LinesOfKind("email")) + 1

\* C10: two successful invocations on the same FileStats, configuration and
\* options leave the same file content.
C10_Deterministic ==
    (pc = "Returned" /\ err = "nil" /\ prevContent # <<>>) =>
        content = prevContent

====
